---------------------------- MODULE Spec2Model ----------------------------
(***************************************************************************)
(* Model of the ESP32 Smart Feeder firmware (src/src/main.cpp).            *)
(*                                                                         *)
(* One thread of control runs setup() once and then loop() forever.  The   *)
(* variable pc is the position of that thread.  The obstacle (IR) sensor   *)
(* is an input pin that the environment may change between any two steps   *)
(* of the program.                                                         *)
(*                                                                         *)
(* Time.  millis() is read in one place only (loop(), line 162), so the    *)
(* time consumed by a tick (its delay() calls, a blocking dispenseFood(),  *)
(* the blocking load-cell read) is added to the clock when the next tick   *)
(* reads it.  The clock counts units of MsPerUnit milliseconds and wraps   *)
(* at 2^ClockBits units, standing for the 32-bit unsigned long of the      *)
(* target.                                                                 *)
(***************************************************************************)
EXTENDS Integers, Sequences, FiniteSets, TLC

\* ------------------------------------------------------------------ bounds
MsPerUnit    == 1000   \* resolution of the modelled clock, in milliseconds
ClockBits    == 4      \* width of the modelled millis() counter, in bits
MaxTickUnits == 6      \* longest time one tick (or setup) may take, in units
MaxNetworks  == 2      \* most networks a WiFi scan reports

ClockMod == 2 ^ ClockBits

\* Cap of the history variable sinceSample.
TrueCap == 2 * ClockMod

\* ------------------------------------------------------- program constants
DISPENSE_STEPS   == 400     \* #define DISPENSE_STEPS
StatusIntervalMs == 5000    \* literal in loop(): now - lastStatus >= 5000
SettleBeforeMs   == 10      \* delay(10) after enabling the driver
SettleAfterMs    == 1000    \* delay(1000) after the move

WeightSamples    == 10      \* scale.get_units(10)
calibration_factor == -7050 \* float calibration_factor = -7050.0
maxAttempts      == 15      \* int maxAttempts = 15

HIGH == "HIGH"
LOW  == "LOW"

\* Calibrated averages scale.get_units(10) may return, in grams.
Readings == {-3, 0, 150}

NoResponse == [code |-> 0, type |-> "none", body |-> "none", weight |-> 0]

VARIABLES
  pc,            \* position of the single thread of control
  enablePin,     \* level last written to ENABLE_PIN ("UNSET" before setup)
  ir,            \* level of IR_SENSOR_PIN (LOW = obstruction)
  irValue,       \* dispenseFood()'s local irValue ("NONE" outside a request)
  distanceToGo,  \* stepper.distanceToGo(): steps left of the commanded move
  millis,        \* the millisecond clock at its last read, in units
  lastStatus,    \* loop()'s static lastStatus, in units
  \* ---- history variables (observations, not program state)
  req,           \* route being served by the current handleClient() call
  sent,          \* response sent by the current handleClient() call
  hwLog,         \* motor-side events since the current handleClient() began
  stepsInCall,   \* motor steps issued since the current handleClient() began
  dfCalls,       \* dispenseFood() invocations by the current handleClient()
  outcome,       \* how the most recent dispenseFood() call ended
  prevOutcome,   \* outcome of the call before the one now being served
  sinceSample,   \* true time since the last sample (or boot), in units
  tickSample,    \* the current tick took a telemetry sample
  lateTick,      \* the current tick began more than one interval late
  \* ---- setupWiFi()
  networkFound,  \* setupWiFi()'s local networkFound
  attempts,      \* setupWiFi()'s local attempts
  wifiBegun,     \* history: WiFi.begin() was called by setupWiFi()
  \* ---- the load cell, for one getWeight() call followed on its own
  wpc,           \* position inside getWeight(): "idle", "sampling", "done"
  scaleReady,    \* scale.is_ready(): the amplifier has data
  wasReady,      \* what scale.is_ready() returned to the current call
  nSamples,      \* raw samples read by the current call
  rawSum,        \* sum of the raw samples read by the current call
  offset,        \* the tare offset set in setup()
  weight,        \* value returned by the most recent getWeight() call
  priorPositive  \* history: the call before the current one returned > 0

wifi  == <<networkFound, attempts, wifiBegun>>
scale == <<wpc, scaleReady, wasReady, nSamples, rawSum, offset, weight,
           priorPositive>>

main == <<pc, enablePin, ir, irValue, distanceToGo, millis, lastStatus,
          req, sent, hwLog, stepsInCall, dfCalls, outcome, prevOutcome,
          sinceSample, tickSample, lateTick>>

vars == <<main, wifi, scale>>

prog  == <<enablePin, irValue, distanceToGo, millis, lastStatus>>
hist  == <<req, sent, hwLog, stepsInCall, dfCalls, outcome, prevOutcome>>
timer == <<millis, lastStatus, sinceSample, tickSample, lateTick>>

Min(a, b) == IF a < b THEN a ELSE b

\* ----------------------------------------------------------- pure helpers

\* digitalRead(IR_SENSOR_PIN)
\* Faulty variant: once a call was refused, the sensor keeps reading LOW.
ReadIRLatched == IF outcome = "blocked" THEN LOW ELSE ir
ReadIR == ir

\* Unsigned subtraction now - lastStatus on the clock's width.
\* Faulty variant: the subtraction is done on signed values, without wrap.
ElapsedSigned(now, last) == now - last

Elapsed(now, last) == (now - last + ClockMod) % ClockMod

\* The interval test of loop(): now - lastStatus >= 5000.
\* Faulty variant: the comparison is > instead of >=.
DueStrict(now, last) == Elapsed(now, last) * MsPerUnit > StatusIntervalMs

\* Faulty variant: the sample fires one clock unit early.
DueEarly(now, last) == Elapsed(now, last) * MsPerUnit >= StatusIntervalMs - MsPerUnit
Due(now, last) == Elapsed(now, last) * MsPerUnit >= StatusIntervalMs

\* getWeight(): zero when the amplifier is not ready, else the calibrated
\* average clamped at zero.
\* Faulty variant: the clamp is missing.
getWeightNoClamp(ready, reading) ==
  IF ready THEN reading ELSE 0

\* Faulty variant: when not ready, the previous reading is returned.
getWeightStale(ready, reading) ==
  IF ready THEN (IF reading < 0 THEN 0 ELSE reading) ELSE reading

getWeight(ready, reading) ==
  IF ready THEN (IF reading < 0 THEN 0 ELSE reading) ELSE 0

\* Integer division rounding toward zero, as C does.
TruncDiv(a, b) ==
  LET abs(x) == IF x < 0 THEN 0 - x ELSE x
      q == abs(a) \div abs(b)
  IN  IF (a < 0) = (b < 0) THEN q ELSE 0 - q

\* HX711::get_units(times) once the samples are read: the average of the raw
\* samples, less the tare offset, divided by the calibration factor.  The
\* result is kept in hundredths of a gram (the firmware prints two decimals).
GetUnits(sum, off) ==
  TruncDiv((TruncDiv(sum, WeightSamples) - off) * 100, calibration_factor)

\* AccelStepper::run() on a stepper with d steps to go: at most one step is
\* issued; the result says whether the motor is still moving.
StepperRun(d) ==
  LET left == IF d > 0 THEN d - 1 ELSE d
  IN  [left |-> left, stepped |-> d > 0, moving |-> left # 0]

\* AccelStepper::move(relative): the target is set relative to the current
\* position, so the distance to go grows by the relative amount.
StepperMove(d, relative) == d + relative

\* Motor-side events recorded in hwLog.
EvEnable(level) == <<"ENABLE_PIN", level>>
EvDelay(ms)     == <<"DELAY", ms>>
EvMove(steps)   == <<"MOVE", steps>>
EvStep          == <<"STEP", 1>>

\* Append a motor step to the log; consecutive steps are logged once.
LogStep(log) ==
  IF Len(log) > 0 /\ log[Len(log)] = EvStep THEN log ELSE Append(log, EvStep)

\* ------------------------------------------------------------------- Init
ProgInit ==
  /\ pc = "wifi_scan"
  /\ enablePin = "UNSET"
  /\ ir \in {HIGH, LOW}
  /\ irValue = "NONE"
  /\ distanceToGo = 0
  /\ millis = 0
  /\ lastStatus = 0
  /\ req = "none"
  /\ sent = NoResponse
  /\ hwLog = <<>>
  /\ stepsInCall = 0
  /\ dfCalls = 0
  /\ outcome = "none"
  /\ prevOutcome = "none"
  /\ sinceSample = 0
  /\ tickSample = FALSE
  /\ lateTick = FALSE
  /\ networkFound = FALSE
  /\ attempts = 0
  /\ wifiBegun = FALSE
  /\ wpc = "idle"
  /\ wasReady = FALSE
  /\ nSamples = 0
  /\ rawSum = 0
  /\ weight = 0
  /\ priorPositive = FALSE

\* The firmware at power-up; the load cell is followed in WeightSpec only.
Init ==
  /\ ProgInit
  /\ scaleReady = FALSE
  /\ offset = 0

\* ------------------------------------------------------------ environment
\* The obstacle sensor changes level.
IRChange ==
  /\ UNCHANGED <<wifi, scale>>
  /\ ir' = IF ir = LOW THEN HIGH ELSE LOW
  /\ UNCHANGED <<pc, prog, hist, sinceSample, tickSample, lateTick>>


\* ----------------------------------------------------------- setupWiFi()
ssid == "Wokwi-GUEST"
SSIDs == {ssid, "other"}

\* Results of WiFi.scanNetworks(): a count, or a negative error code.
ScanCounts == -2..MaxNetworks

\* setupWiFi() up to the wait loop: scan, look for the target SSID among the
\* n networks found, and call WiFi.begin() only if it is there.
setupWiFiScan ==
  /\ pc = "wifi_scan"
  /\ \E n \in ScanCounts, nets \in [1..MaxNetworks -> SSIDs] :
       LET found == \E i \in 1..n : nets[i] = ssid
       IN  /\ networkFound' = found
           /\ wifiBegun' = found
           /\ pc' = IF found THEN "wifi_wait" ELSE "setup"
  /\ attempts' = 0
  /\ UNCHANGED <<enablePin, ir, irValue, distanceToGo, timer, hist, scale>>

\* while (WiFi.status() != WL_CONNECTED && attempts < maxAttempts): one
\* evaluation of the condition, and the body when it holds.
setupWiFiWaitUnbounded ==
  /\ pc = "wifi_wait"
  /\ \E connected \in BOOLEAN :
       IF ~connected
         THEN /\ attempts' = attempts + 1
              /\ pc' = "wifi_wait"
         ELSE /\ UNCHANGED attempts
              /\ pc' = "setup"
  /\ UNCHANGED <<enablePin, ir, irValue, distanceToGo, timer, hist, scale,
                 networkFound, wifiBegun>>

setupWiFiWait ==
  /\ pc = "wifi_wait"
  /\ \E connected \in BOOLEAN :
       IF ~connected /\ attempts < maxAttempts
         THEN /\ attempts' = attempts + 1
              /\ pc' = "wifi_wait"
         ELSE /\ UNCHANGED attempts
              /\ pc' = "setup"
  /\ UNCHANGED <<enablePin, ir, irValue, distanceToGo, timer, hist, scale,
                 networkFound, wifiBegun>>

\* --------------------------------------------------------------- setup()
\* setup() after setupWiFi() has returned: the driver is disabled
\* (ENABLE_PIN HIGH) before the loop starts.  The delays of setup() and the
\* WiFi scan and wait take time before the loop's first tick.
Setup ==
  /\ pc = "setup"
  /\ networkFound' = FALSE
  /\ attempts' = 0
  /\ wifiBegun' = FALSE
  /\ UNCHANGED scale
  /\ enablePin' = HIGH
  /\ \E d \in 0..MaxTickUnits :
       /\ millis' = (millis + d) % ClockMod
       /\ sinceSample' = Min(sinceSample + d, TrueCap)
  /\ pc' = "loop_top"
  /\ UNCHANGED <<ir, irValue, distanceToGo, lastStatus, hist, tickSample, lateTick>>

\* ---------------------------------------------------------------- loop()
\* loop(), first part: read millis() and take the periodic status sample
\* (getWeight() and the IR pin, printed on Serial) when it is due.  d is the
\* time that passed since the previous read of the clock.
LoopTop ==
  /\ UNCHANGED <<wifi, scale>>
  /\ pc = "loop_top"
  /\ \E d \in 0..MaxTickUnits :
       LET now == (millis + d) % ClockMod
       IN  /\ millis' = now
           /\ lateTick' = (d * MsPerUnit > StatusIntervalMs)
           /\ IF Due(now, lastStatus)
                THEN /\ tickSample' = TRUE
                     /\ lastStatus' = now
                     /\ sinceSample' = 0
                ELSE /\ tickSample' = FALSE
                     /\ UNCHANGED lastStatus
                     /\ sinceSample' = Min(sinceSample + d, TrueCap)
  /\ pc' = "loop_serve"
  /\ UNCHANGED <<enablePin, ir, irValue, distanceToGo, hist>>

\* server.handleClient() with no request pending.
ServeNone ==
  /\ UNCHANGED <<wifi, scale>>
  /\ pc = "loop_serve"
  /\ pc' = "loop_run"
  /\ tickSample' = FALSE
  /\ lateTick' = FALSE
  /\ UNCHANGED <<prog, ir, hist, sinceSample>>

\* A handler that only reads sensors and answers: the response it sends.
Answer(route, response) ==
  /\ UNCHANGED <<wifi, scale>>
  /\ pc = "loop_serve"
  /\ req' = route
  /\ sent' = response
  /\ pc' = "loop_run"
  /\ tickSample' = FALSE
  /\ lateTick' = FALSE
  /\ UNCHANGED <<prog, ir, hwLog, stepsInCall, dfCalls, outcome, prevOutcome,
                 sinceSample>>

\* handleRoot(): the status page with the current weight.
handleRoot ==
  \E ready \in BOOLEAN, reading \in Readings :
    Answer("/", [code |-> 200, type |-> "text/html", body |-> "page",
                 weight |-> getWeight(ready, reading)])

\* handleWeight(): the current weight as plain text.
\* Faulty variant: /weight wired to the dispense handler.
handleWeightDispenses ==
  /\ UNCHANGED <<wifi, scale>>
  /\ pc = "loop_serve"
  /\ req' = "/weight"
  /\ dfCalls' = dfCalls + 1
  /\ prevOutcome' = outcome
  /\ pc' = "df_entry"
  /\ tickSample' = FALSE
  /\ lateTick' = FALSE
  /\ UNCHANGED <<prog, ir, sent, hwLog, stepsInCall, outcome, sinceSample>>

handleWeight ==
  \E ready \in BOOLEAN, reading \in Readings :
    Answer("/weight", [code |-> 200, type |-> "text/plain", body |-> "weight",
                       weight |-> getWeight(ready, reading)])

\* handleNotFound(): every path that is not registered.
handleNotFound ==
  Answer("/other", [code |-> 404, type |-> "text/plain", body |-> "Not found",
                    weight |-> 0])

\* handleDispense(), first part: the call of dispenseFood().
handleDispense ==
  /\ UNCHANGED <<wifi, scale>>
  /\ pc = "loop_serve"
  /\ req' = "/dispense"
  /\ dfCalls' = dfCalls + 1
  /\ prevOutcome' = outcome
  /\ pc' = "df_entry"
  /\ tickSample' = FALSE
  /\ lateTick' = FALSE
  /\ UNCHANGED <<prog, ir, sent, hwLog, stepsInCall, outcome, sinceSample>>

\* ------------------------------------------------------- dispenseFood()
\* if (irValue == LOW) return;
\* Faulty variant: the interlock test never trips.
IsObstructedNever(v) == FALSE
IsObstructed(v) == v = LOW

\* dispenseFood(), lines 369-379: sample the IR pin once; return when it
\* reads LOW.  (irValue is kept until the end of the tick for observation.)
dispenseFoodEntry ==
  /\ UNCHANGED <<wifi, scale>>
  /\ pc = "df_entry"
  /\ irValue' = ReadIR
  /\ IF IsObstructed(irValue')
       THEN /\ outcome' = "blocked"
            /\ pc' = "hd_weight"
       ELSE /\ UNCHANGED outcome
            /\ pc' = "df_enable"
  /\ UNCHANGED <<enablePin, ir, distanceToGo, timer, req, sent, hwLog,
                 stepsInCall, dfCalls, prevOutcome>>

\* digitalWrite(ENABLE_PIN, LOW); delay(10);
\* Faulty variant: the settle delay after enabling is missing.
dfEnableNoSettle ==
  /\ UNCHANGED <<wifi, scale>>
  /\ pc = "df_enable"
  /\ enablePin' = LOW
  /\ hwLog' = Append(hwLog, EvEnable(LOW))
  /\ pc' = "df_move"
  /\ UNCHANGED <<ir, irValue, distanceToGo, timer, req, sent, stepsInCall,
                 dfCalls, outcome, prevOutcome>>

\* Faulty variant: the write that enables the driver is missing.
dfEnableNoWrite ==
  /\ UNCHANGED <<wifi, scale>>
  /\ pc = "df_enable"
  /\ hwLog' = Append(hwLog, EvDelay(SettleBeforeMs))
  /\ pc' = "df_move"
  /\ UNCHANGED <<enablePin, ir, irValue, distanceToGo, timer, req, sent,
                 stepsInCall, dfCalls, outcome, prevOutcome>>

dfEnable ==
  /\ UNCHANGED <<wifi, scale>>
  /\ pc = "df_enable"
  /\ enablePin' = LOW
  /\ hwLog' = hwLog \o <<EvEnable(LOW), EvDelay(SettleBeforeMs)>>
  /\ pc' = "df_move"
  /\ UNCHANGED <<ir, irValue, distanceToGo, timer, req, sent, stepsInCall,
                 dfCalls, outcome, prevOutcome>>

\* stepper.move(DISPENSE_STEPS);
dfMove ==
  /\ UNCHANGED <<wifi, scale>>
  /\ pc = "df_move"
  /\ distanceToGo' = StepperMove(distanceToGo, DISPENSE_STEPS)
  /\ hwLog' = Append(hwLog, EvMove(DISPENSE_STEPS))
  /\ pc' = "df_run"
  /\ UNCHANGED <<enablePin, ir, irValue, timer, req, sent, stepsInCall,
                 dfCalls, outcome, prevOutcome>>

\* while (stepper.run()) { delay(1); }  -- one evaluation of the condition.
\* Faulty variant: the wait loop is an if: run() is called once.
dfRunOnce ==
  /\ UNCHANGED <<wifi, scale>>
  /\ pc = "df_run"
  /\ LET r == StepperRun(distanceToGo)
     IN  /\ distanceToGo' = r.left
         /\ hwLog' = IF r.stepped THEN LogStep(hwLog) ELSE hwLog
         /\ stepsInCall' = IF r.stepped THEN stepsInCall + 1 ELSE stepsInCall
         /\ pc' = "df_disable"
  /\ UNCHANGED <<enablePin, ir, irValue, timer, req, sent, dfCalls, outcome,
                 prevOutcome>>

\* Faulty variant: the driver is enabled again on every iteration.
dfRunReenable ==
  /\ UNCHANGED <<wifi, scale>>
  /\ pc = "df_run"
  /\ LET r == StepperRun(distanceToGo)
     IN  /\ distanceToGo' = r.left
         /\ hwLog' = Append(IF r.stepped THEN LogStep(hwLog) ELSE hwLog,
                            EvEnable(LOW))
         /\ stepsInCall' = IF r.stepped THEN stepsInCall + 1 ELSE stepsInCall
         /\ pc' = IF r.moving THEN "df_run" ELSE "df_disable"
  /\ enablePin' = LOW
  /\ UNCHANGED <<ir, irValue, timer, req, sent, dfCalls, outcome,
                 prevOutcome>>

\* Faulty variant: the wait loop's condition never becomes false.
dfRunNeverDone ==
  /\ UNCHANGED <<wifi, scale>>
  /\ pc = "df_run"
  /\ LET r == StepperRun(distanceToGo)
     IN  /\ distanceToGo' = r.left
         /\ hwLog' = IF r.stepped THEN LogStep(hwLog) ELSE hwLog
         /\ stepsInCall' = IF r.stepped THEN stepsInCall + 1 ELSE stepsInCall
         /\ pc' = "df_run"
  /\ UNCHANGED <<enablePin, ir, irValue, timer, req, sent, dfCalls, outcome,
                 prevOutcome>>

dfRun ==
  /\ UNCHANGED <<wifi, scale>>
  /\ pc = "df_run"
  /\ LET r == StepperRun(distanceToGo)
     IN  /\ distanceToGo' = r.left
         /\ hwLog' = IF r.stepped THEN LogStep(hwLog) ELSE hwLog
         /\ stepsInCall' = IF r.stepped THEN stepsInCall + 1 ELSE stepsInCall
         /\ pc' = IF r.moving THEN "df_run" ELSE "df_disable"
  /\ UNCHANGED <<enablePin, ir, irValue, timer, req, sent, dfCalls, outcome,
                 prevOutcome>>

\* digitalWrite(ENABLE_PIN, HIGH);
\* Faulty variant: the driver is left enabled.
dfDisableOmitted ==
  /\ UNCHANGED <<wifi, scale>>
  /\ pc = "df_disable"
  /\ pc' = "df_settle"
  /\ UNCHANGED <<enablePin, ir, irValue, distanceToGo, timer, hist>>

dfDisable ==
  /\ UNCHANGED <<wifi, scale>>
  /\ pc = "df_disable"
  /\ enablePin' = HIGH
  /\ hwLog' = Append(hwLog, EvEnable(HIGH))
  /\ pc' = "df_settle"
  /\ UNCHANGED <<ir, irValue, distanceToGo, timer, req, sent, stepsInCall,
                 dfCalls, outcome, prevOutcome>>

\* Faulty variant: the settle delay after the move is missing.
dfSettleNoDelay ==
  /\ UNCHANGED <<wifi, scale>>
  /\ pc = "df_settle"
  /\ outcome' = "completed"
  /\ pc' = "hd_weight"
  /\ UNCHANGED <<enablePin, ir, irValue, distanceToGo, timer, req, sent,
                 hwLog, stepsInCall, dfCalls, prevOutcome>>

\* delay(1000); and the return of the completed call.
dfSettle ==
  /\ UNCHANGED <<wifi, scale>>
  /\ pc = "df_settle"
  /\ hwLog' = Append(hwLog, EvDelay(SettleAfterMs))
  /\ outcome' = "completed"
  /\ pc' = "hd_weight"
  /\ UNCHANGED <<enablePin, ir, irValue, distanceToGo, timer, req, sent,
                 stepsInCall, dfCalls, prevOutcome>>

\* Faulty variant: the handler restarts the sampling interval.
handleDispenseRespondResetsTimer ==
  /\ UNCHANGED <<wifi, scale>>
  /\ pc = "hd_weight"
  /\ \E ready \in BOOLEAN, reading \in Readings :
       sent' = [code |-> 200, type |-> "text/plain", body |-> "Food dispensed",
                weight |-> getWeight(ready, reading)]
  /\ lastStatus' = millis
  /\ pc' = "loop_run"
  /\ UNCHANGED <<enablePin, irValue, distanceToGo, millis, ir, sinceSample,
                 tickSample, lateTick, req, hwLog, stepsInCall, dfCalls,
                 outcome, prevOutcome>>

\* handleDispense(), second part: after dispenseFood() has returned, read
\* the weight and send the response.
handleDispenseRespond ==
  /\ UNCHANGED <<wifi, scale>>
  /\ pc = "hd_weight"
  /\ \E ready \in BOOLEAN, reading \in Readings :
       sent' = [code |-> 200, type |-> "text/plain", body |-> "Food dispensed",
                weight |-> getWeight(ready, reading)]
  /\ pc' = "loop_run"
  /\ UNCHANGED <<prog, ir, timer, req, hwLog, stepsInCall, dfCalls, outcome,
                 prevOutcome>>

\* loop(), last part: stepper.run(); delay(10);  -- the tick ends here.
LoopRun ==
  /\ UNCHANGED <<wifi, scale>>
  /\ pc = "loop_run"
  /\ distanceToGo' = StepperRun(distanceToGo).left
  /\ pc' = "loop_top"
  /\ irValue' = "NONE"
  /\ req' = "none"
  /\ sent' = NoResponse
  /\ hwLog' = <<>>
  /\ stepsInCall' = 0
  /\ dfCalls' = 0
  /\ prevOutcome' = "none"
  /\ UNCHANGED <<enablePin, ir, timer, outcome>>

\* ------------------------------------------------------------ specification
Next ==
  \/ IRChange
  \/ setupWiFiScan
  \/ setupWiFiWait
  \/ Setup
  \/ LoopTop
  \/ ServeNone
  \/ handleRoot
  \/ handleWeight
  \/ handleNotFound
  \/ handleDispense
  \/ dispenseFoodEntry
  \/ dfEnable
  \/ dfMove
  \/ dfRun
  \/ dfDisable
  \/ dfSettle
  \/ handleDispenseRespond
  \/ LoopRun

Spec == Init /\ [][Next]_vars

\* The steps of the firmware's one thread (everything but the environment).
Program ==
  \/ setupWiFiScan
  \/ setupWiFiWait
  \/ Setup
  \/ LoopTop
  \/ ServeNone
  \/ handleRoot
  \/ handleWeight
  \/ handleNotFound
  \/ handleDispense
  \/ dispenseFoodEntry
  \/ dfEnable
  \/ dfMove
  \/ dfRun
  \/ dfDisable
  \/ dfSettle
  \/ handleDispenseRespond
  \/ LoopRun

\* The thread never stops: setup() and loop() have no blocking call other
\* than the ones modelled, and every run() call of the wait loop makes
\* progress.
LiveSpec == Init /\ [][Next]_vars /\ WF_vars(Program)

\* ------------------------------------------------------------ getWeight()
\* One getWeight() call after another, followed sample by sample, with the
\* amplifier becoming ready and not ready at any moment.

\* Raw 24-bit samples the amplifier may deliver.
RawValues == {-70500, 0, 1057500}

\* Tare offsets setup() may have stored.
Offsets == {0, 7050}

WeightInit ==
  /\ ProgInit
  /\ scaleReady \in BOOLEAN
  /\ offset \in Offsets

\* The amplifier's data-ready line changes.
ScaleChange ==
  /\ scaleReady' = ~scaleReady
  /\ UNCHANGED <<main, wifi, wpc, wasReady, nSamples, rawSum, offset, weight,
                 priorPositive>>

\* getWeight() is called: if (scale.is_ready()) ... else return 0.0;
getWeightCall ==
  /\ wpc \in {"idle", "done"}
  /\ wasReady' = scaleReady
  /\ nSamples' = 0
  /\ rawSum' = 0
  /\ priorPositive' = (weight > 0)
  /\ IF scaleReady
       THEN /\ wpc' = "sampling"
            /\ UNCHANGED weight
       ELSE /\ wpc' = "done"
            /\ weight' = getWeight(FALSE, weight)
  /\ UNCHANGED <<main, wifi, scaleReady, offset>>

\* scale.get_units(10) reads one raw sample.
scaleRead ==
  /\ wpc = "sampling"
  /\ nSamples < WeightSamples
  /\ \E raw \in RawValues : rawSum' = rawSum + raw
  /\ nSamples' = nSamples + 1
  /\ UNCHANGED <<main, wifi, wpc, scaleReady, wasReady, offset, weight,
                 priorPositive>>

\* scale.get_units(10) returns; the reading is clamped and returned.
getWeightReturn ==
  /\ wpc = "sampling"
  /\ nSamples = WeightSamples
  /\ weight' = getWeight(TRUE, GetUnits(rawSum, offset))
  /\ wpc' = "done"
  /\ UNCHANGED <<main, wifi, scaleReady, wasReady, nSamples, rawSum, offset,
                 priorPositive>>

WeightNext ==
  \/ ScaleChange
  \/ getWeightCall
  \/ scaleRead
  \/ getWeightReturn

WeightSpec == WeightInit /\ [][WeightNext]_vars


\* ================================================================= claims

\* The thread is at a boundary of a loop() tick, or about to poll the server.
AtTick == pc \in {"loop_top", "loop_serve"}

\* dispenseFood() has returned to handleDispense() (or the tick that served
\* the request is about to end).
Returned == pc \in {"hd_weight", "loop_run"}

\* A motor session is in progress: the driver is enabled or a move is pending.
SessionActive == enablePin = LOW \/ distanceToGo # 0

\* The writes to ENABLE_PIN recorded in the log, in order.
IsEnableWrite(e) == e[1] = "ENABLE_PIN"
EnableWrites == SelectSeq(hwLog, IsEnableWrite)

\* The events of one completed dispenseFood() call, in order.
CompletedTrace ==
  << EvEnable(LOW), EvDelay(SettleBeforeMs), EvMove(DISPENSE_STEPS), EvStep,
     EvEnable(HIGH), EvDelay(SettleAfterMs) >>

\* C1: a dispenseFood() call whose sample of the obstacle sensor read LOW
\* has returned at once, and has written nothing to ENABLE_PIN, set no move
\* target and issued no step.
C1_BlockedCallTouchesNothing ==
  irValue = LOW =>
    /\ Returned
    /\ hwLog = <<>>
    /\ stepsInCall = 0
    /\ distanceToGo = 0
    /\ enablePin # LOW

C1_Witness ==
  pc = "hd_weight" /\ irValue = LOW /\ outcome = "blocked" /\ dfCalls = 1

\* C2 (as claimed): whenever the motor is commanded (a move target is set or
\* a step is issued), the obstacle sensor does not read Blocked at that
\* moment.
C2_NeverCommandedWhileBlocked ==
  [][distanceToGo' # distanceToGo => ir # LOW]_vars

\* C2 (amended): the motor is commanded only inside a dispenseFood() call
\* whose one sample of the obstacle sensor, taken at the start of the call,
\* read Clear.
C2_CommandedOnlyAfterClearSample ==
  [][distanceToGo' # distanceToGo =>
       irValue = HIGH /\ pc \in {"df_move", "df_run"}]_vars

C2_Witness ==
  /\ pc = "df_run"
  /\ irValue = HIGH
  /\ ir = LOW
  /\ distanceToGo > 0
  /\ distanceToGo < DISPENSE_STEPS

\* C3: ENABLE_PIN is HIGH (driver disabled) whenever dispenseFood() has
\* returned, on the blocked path as on the completed one, and at every tick
\* boundary and poll of the server.
C3_DisabledOnReturn ==
  (Returned \/ AtTick) => enablePin = HIGH

C3_Witness ==
  /\ pc = "hd_weight"
  /\ irValue = LOW
  /\ prevOutcome = "completed"
  /\ enablePin = HIGH

\* C4 (as claimed): the response to a /dispense request says "dispensed" only
\* for a completed dispense; a call refused because the sensor read Blocked
\* is answered with a different status.
C4_BlockedReportedDistinctly ==
  (pc = "loop_run" /\ req = "/dispense") =>
    (sent.body = "Food dispensed" => irValue = HIGH /\ outcome = "completed")

\* C5: in a call that passed the obstacle check the writes to ENABLE_PIN are
\* LOW then HIGH and nothing else: during the call a prefix of that, at the
\* return exactly that.
C5_EnableWrittenLowThenHigh ==
  irValue = HIGH =>
    /\ EnableWrites \in { <<>>, <<EvEnable(LOW)>>,
                          <<EvEnable(LOW), EvEnable(HIGH)>> }
    /\ Returned => EnableWrites = <<EvEnable(LOW), EvEnable(HIGH)>>

C5_Witness ==
  /\ pc = "hd_weight"
  /\ irValue = HIGH
  /\ EnableWrites = <<EvEnable(LOW), EvEnable(HIGH)>>

\* C6: a completed call has done, in this order: enable, 10 ms settle delay,
\* move of DISPENSE_STEPS, the steps of the whole move, disable, 1000 ms
\* settle delay; the driver is disabled only when the move is finished.
C6_CompletedCallOrder ==
  /\ (Returned /\ irValue = HIGH) =>
        /\ hwLog = CompletedTrace
        /\ stepsInCall = DISPENSE_STEPS
        /\ distanceToGo = 0
  /\ pc \in {"df_disable", "df_settle"} =>
        /\ distanceToGo = 0
        /\ stepsInCall = DISPENSE_STEPS
  /\ (irValue = HIGH /\ stepsInCall > 0) =>
        /\ Len(hwLog) >= 4
        /\ SubSeq(hwLog, 1, 4) = SubSeq(CompletedTrace, 1, 4)

C6_Witness ==
  pc = "hd_weight" /\ irValue = HIGH /\ hwLog = CompletedTrace

\* C7: when the loop samples telemetry, polls the server or starts a
\* dispenseFood() call, no motor session is in progress; one poll of the
\* server starts at most one call.
C7_NoWorkDuringSession ==
  /\ AtTick => ~SessionActive
  /\ pc = "df_entry" => ~SessionActive
  /\ dfCalls <= 1

C7_Witness ==
  /\ pc = "df_run"
  /\ SessionActive
  /\ dfCalls = 1
  /\ stepsInCall > 0
  /\ distanceToGo > 0

\* C8: a tick samples only when at least the interval has really passed since
\* the previous sample (or boot); the sample restarts the interval at the
\* tick's own time; a tick that begins more than one interval late takes its
\* one sample.
C8_SampleOncePerInterval ==
  [][(pc = "loop_top" /\ pc' = "loop_serve") =>
       LET passed == sinceSample + Elapsed(millis', millis)
       IN  /\ tickSample' =>
                /\ passed * MsPerUnit >= StatusIntervalMs
                /\ lastStatus' = millis'
                /\ sinceSample' = 0
           /\ lateTick' => tickSample']_vars

C8_Witness ==
  pc = "loop_serve" /\ tickSample /\ lateTick /\ outcome = "completed"

\* C9: when handleClient() has served a request, dispenseFood() was invoked
\* exactly once if the route was /dispense and not at all otherwise; the
\* other routes wrote nothing to ENABLE_PIN and commanded no move.
C9_OnlyDispenseRouteDispenses ==
  pc = "loop_run" =>
    /\ req = "/dispense" => dfCalls = 1
    /\ req # "/dispense" =>
         /\ dfCalls = 0
         /\ hwLog = <<>>
         /\ stepsInCall = 0
         /\ enablePin = HIGH
         /\ distanceToGo = 0

C9_Witness ==
  pc = "loop_run" /\ req = "/dispense" /\ dfCalls = 1 /\ outcome = "completed"

\* C10: every dispenseFood() call decides on the level the sensor has when
\* the call reads it: LOW refuses the call, HIGH lets it proceed, whatever
\* the earlier calls did.
C10_SampledFreshEachCall ==
  [][(pc = "df_entry" /\ pc' # "df_entry") =>
       /\ irValue' = ir
       /\ ir = LOW  => (pc' = "hd_weight" /\ outcome' = "blocked")
       /\ ir = HIGH => pc' = "df_enable"]_vars

C10_Witness ==
  pc = "hd_weight" /\ prevOutcome = "blocked" /\ outcome = "completed"


\* The reading get_units(10) gives for the samples of the current call.
CallReading == GetUnits(rawSum, offset)

\* C11: the value getWeight() returns is never negative, whatever the
\* amplifier's state and whatever raw samples it delivered.
C11_WeightNeverNegative ==
  weight >= 0

C11_Witness ==
  wpc = "done" /\ wasReady /\ nSamples = WeightSamples /\ CallReading < 0
    /\ weight = 0

\* C12: a getWeight() call that found the amplifier not ready has read no
\* sample and returned zero; a call that found it ready has read 10 samples
\* and returned their calibrated average, or zero when that is negative.
C12_ZeroWhenNotReady ==
  wpc = "done" =>
    IF wasReady
      THEN /\ nSamples = WeightSamples
           /\ CallReading >= 0 => weight = CallReading
           /\ CallReading < 0 => weight = 0
      ELSE /\ nSamples = 0
           /\ weight = 0

C12_Witness ==
  wpc = "done" /\ ~wasReady /\ priorPositive /\ weight = 0 /\ nSamples = 0


\* The tick reads the clock and decides whether to sample.
TickReadsClock == pc = "loop_top" /\ pc' = "loop_serve"

\* Time that passed between the previous read of the clock and this one, and
\* the true time since the last sample (or boot) at this read.
TickTime == (millis' - millis) % ClockMod
TruePassed == sinceSample + TickTime

\* Positions at which getWeight() is called.
WeightReadPcs == {"loop_top", "loop_serve", "hd_weight"}

\* C13: when dispenseFood() returns the stepper has nothing left to go, and
\* the stepper.run() call of loop() finds no pending move and issues no step.
C13_MoveFinishedInsideDispense ==
  [][/\ (pc # "hd_weight" /\ pc' = "hd_weight") => distanceToGo' = 0
     /\ (pc = "loop_run" /\ pc' = "loop_top") =>
           (distanceToGo = 0 /\ distanceToGo' = distanceToGo)]_vars

C13_Witness ==
  /\ pc = "loop_run"
  /\ outcome = "completed"
  /\ req = "/dispense"
  /\ stepsInCall = DISPENSE_STEPS
  /\ distanceToGo = 0

\* C14: after every call of dispenseFood() the loop reaches its next tick
\* (so the call has returned); a call that samples LOW returns in that same
\* step.
C14_DispenseReturns ==
  /\ (pc = "df_entry") ~> (pc = "loop_top")
  /\ [][(pc = "df_entry" /\ irValue' = LOW) => pc' = "hd_weight"]_vars

C14_Witness ==
  pc = "loop_top" /\ outcome = "completed" /\ distanceToGo = 0

\* C15: the weight sent in answer to a completed dispense is read after the
\* post-move settle delay, with the driver disabled and the move finished;
\* getWeight() is never called while a motor session is in progress.
C15_WeightReadAfterSettle ==
  /\ (pc = "hd_weight" /\ irValue = HIGH) =>
        /\ Len(hwLog) > 0
        /\ hwLog[Len(hwLog)] = EvDelay(SettleAfterMs)
        /\ EnableWrites = <<EvEnable(LOW), EvEnable(HIGH)>>
  /\ pc \in WeightReadPcs => ~SessionActive

C15_Witness ==
  /\ pc = "loop_run"
  /\ req = "/dispense"
  /\ irValue = HIGH
  /\ sent.body = "Food dispensed"
  /\ sent.weight > 0

\* C16: a tick that reads the clock when at least the interval has passed
\* since the last sample takes a sample and sets lastStatus to its own time;
\* so once a tick has read the clock, less than one interval has passed since
\* the last sample.
C16_SampleWheneverDue ==
  [][/\ TickReadsClock =>
          (TruePassed * MsPerUnit >= StatusIntervalMs =>
              tickSample' /\ lastStatus' = millis')
     /\ pc' \in {"loop_serve", "loop_run", "df_entry", "df_run", "hd_weight"} =>
          sinceSample' * MsPerUnit < StatusIntervalMs]_vars

C16_Witness ==
  /\ pc = "loop_serve"
  /\ tickSample
  /\ ~lateTick
  /\ lastStatus = millis
  /\ outcome = "blocked"

\* C17: lastStatus changes only in the sampling branch of a tick.
C17_TimerChangedOnlyBySampling ==
  [][lastStatus' # lastStatus => (TickReadsClock /\ tickSample')]_vars

C17_Witness ==
  /\ pc = "loop_run"
  /\ req = "/dispense"
  /\ outcome = "completed"
  /\ lastStatus # millis
  /\ lastStatus # 0

\* C18: a motor step is issued only while ENABLE_PIN is LOW.
C18_StepOnlyWhileEnabled ==
  [][distanceToGo' < distanceToGo => enablePin = LOW]_vars

C18_Witness ==
  pc = "df_run" /\ enablePin = LOW /\ distanceToGo = DISPENSE_STEPS - 1

\* C19: when the clock has wrapped since the last sample, now - lastStatus
\* is still the time that really passed, and the tick samples exactly when
\* that time is at least the interval.
C19_WrapSafeInterval ==
  [][(TickReadsClock /\ millis' < lastStatus) =>
       /\ Elapsed(millis', lastStatus) = TruePassed
       /\ tickSample' <=> (TruePassed * MsPerUnit >= StatusIntervalMs)]_vars

C19_Witness ==
  pc = "loop_serve" /\ millis < lastStatus /\ ~tickSample /\ sinceSample > 0

\* C20: setup() reaches the loop (so setupWiFi() has returned); WiFi.begin() is
\* called only when the scan found the target SSID; the wait loop makes at
\* most maxAttempts attempts.
C20_WiFiSetupTerminates ==
  /\ <>(pc = "loop_top")
  /\ [][/\ attempts' <= maxAttempts
        /\ wifiBegun' => networkFound'
        /\ pc' = "wifi_wait" => networkFound']_vars

C20_Witness ==
  pc = "setup" /\ wifiBegun /\ networkFound /\ attempts = maxAttempts

=============================================================================
